---- MODULE Spec2Model ----
(***************************************************************************)
(* The blackjack hand state machine with card counting:                    *)
(* CountingBlackjackGame over BlackjackGame, Shoe, Hand, GameResult and    *)
(* CardCounter (Hi-Lo, KO, Hi-Opt I); beside it GameResult as a caller     *)
(* constructs it, BasicStrategy and DeviationStrategy, and a Shoe, a       *)
(* CardCounter and a Hand used on their own.                               *)
(*                                                                         *)
(* A card is its position 1..num_decks*52 in the list _create_decks        *)
(* builds (deck, suit, rank order), so two cards of equal rank and suit    *)
(* from different decks stay distinct objects.  Payouts are kept in tenths *)
(* of a bet (1.5 is 15, -0.5 is -5).  Penetration is kept in percent.      *)
(***************************************************************************)
EXTENDS Integers, Sequences, FiniteSets, TLC

VARIABLES
    rules,          \* GameRules of this game, fixed at construction
    cards,          \* Shoe.cards: the remaining cards, next card first
    cards_dealt,    \* Shoe.cards_dealt
    player_hand,    \* BlackjackGame.player_hand.cards
    dealer_hand,    \* BlackjackGame.dealer_hand.cards
    game_over,      \* BlackjackGame.game_over
    result,         \* BlackjackGame.result
    counting_system,\* CountingBlackjackGame.counting_system, by its name()
    running_count,  \* CardCounter._running_count
    cards_seen,     \* CardCounter._cards_seen
    counted,        \* history: cards passed to update_count since the counter was zeroed
    revealed,       \* history: cards passed to update_count since the last reset()
    shuffles,       \* history: number of Shoe.shuffle() calls after construction
    switches,       \* history: number of switch_counting_system() calls
    last,           \* history: the last operation called and whether it returned
    probe           \* the last call of a function that takes no game: arguments and value

vars == <<rules, cards, cards_dealt, player_hand, dealer_hand, game_over,
          result, counting_system, running_count, cards_seen, counted, revealed,
          shuffles, switches, last, probe>>

-----------------------------------------------------------------------------
(* Bounds *)

\* Shoe.shuffle() may be called at most this many times after construction.
MaxShuffles == 1

\* switch_counting_system() may be called at most this many times, and where
\* it is among the calls Shoe.shuffle() at most MaxSwitchShuffles times.
MaxSwitches == 1
MaxSwitchShuffles == 0

\* The orders random.shuffle may produce: the ranks of the first cards of the
\* shuffled shoe (1 = ace, 11..13 = jack, queen, king); the other cards
\* follow in their previous relative order.
ShuffleTops ==
    { <<10, 6, 6, 10, 5, 2, 3>>,      \* player 16, dealer 16 draws 5
      <<1, 10, 13, 7, 5, 9, 4>>,      \* player natural
      <<1, 1, 13, 12, 5, 9, 4>>,      \* both naturals
      <<10, 1, 9, 13, 5, 9, 4>>,      \* dealer natural
      <<10, 1, 8, 6, 1, 5, 10>>,      \* player 18, dealer soft 17, then soft 18
      <<10, 9, 6, 8, 10, 2, 9>>,      \* player 16 busts on a hit
      <<2, 3, 2, 3, 4, 5, 6>>,        \* low cards, several draws
      <<5, 6, 6, 10, 13, 10, 2>>,     \* player 11, dealer 16 draws a king
      <<2, 7, 3, 10, 4, 5, 6>> }      \* player 5, dealer hard 17, low hits

\* The payouts a caller constructs a GameResult with: up to MaxPayout tenths
\* of a bet either way, and the float that is not a number (PayoutInputs).
MaxPayout == 25

\* The true counts a strategy is asked with: whole counts up to MaxTrueCount
\* either way.  The hands it is asked with: every two-card hand, and the
\* three-card hands of the ranks ThreeCardRanks.
MaxTrueCount == 5
ThreeCardRanks == {1, 2, 3, 4, 5, 10}

\* The hands Hand.value and Hand.is_soft are asked of: every sequence of at
\* most MaxHandLen cards by rank.
MaxHandLen == 4

\* A shoe used on its own: Shoe.shuffle() may be called at most
\* MaxShoeShuffles times after construction, with the orders ShoeShuffleTops
\* (the empty one leaves the order as it is), under the penetrations of
\* ShoeRulesChoices.
MaxShoeShuffles == 1
ShoeShuffleTops == { <<>>, <<1, 10, 13, 7, 5, 9, 4>> }
ShoeRulesChoices ==
    { [dealer_hits_soft_17 |-> TRUE, surrender_allowed |-> FALSE,
       num_decks |-> 1, penetration |-> 14, blackjack_payout |-> 15],
      [dealer_hits_soft_17 |-> TRUE, surrender_allowed |-> FALSE,
       num_decks |-> 1, penetration |-> 95, blackjack_payout |-> 15] }

\* A counter used on its own: update_count() may be called at most
\* MaxCardsSeen times (two more than a deck holds).
MaxCardsSeen == 54

\* The game with the dealer-play loop taken one iteration at a time: the
\* calls reach Shoe.shuffle() at most MaxDealerPlayShuffles times.
MaxDealerPlayShuffles == 0

\* The rule sets a game is constructed with.
RulesChoices ==
    { [dealer_hits_soft_17 |-> TRUE,  surrender_allowed |-> FALSE,
       num_decks |-> 1, penetration |-> 14, blackjack_payout |-> 15],
      [dealer_hits_soft_17 |-> FALSE, surrender_allowed |-> TRUE,
       num_decks |-> 1, penetration |-> 14, blackjack_payout |-> 10],
      [dealer_hits_soft_17 |-> TRUE,  surrender_allowed |-> TRUE,
       num_decks |-> 1, penetration |-> 10, blackjack_payout |-> 20] }

-----------------------------------------------------------------------------
(* Card *)

CardsPerDeck == 52
RanksPerSuit == 13
ACE == 1

\* Card.rank of the card at a position of the list _create_decks builds
Rank(c) == ((c - 1) % RanksPerSuit) + 1

Card_value(c, ace_as_eleven) ==
    IF Rank(c) = ACE THEN (IF ace_as_eleven THEN 11 ELSE 1)
    ELSE IF Rank(c) \in {11, 12, 13} THEN 10
    ELSE Rank(c)

-----------------------------------------------------------------------------
(* Hand *)

\* the first loop of Hand.value: <<total, aces>> with every ace counted as 11
RECURSIVE CountCards(_)
CountCards(h) ==
    IF h = <<>> THEN <<0, 0>>
    ELSE LET r == CountCards(Tail(h)) IN
         IF Rank(Head(h)) = ACE THEN <<r[1] + 11, r[2] + 1>>
         ELSE <<r[1] + Card_value(Head(h), FALSE), r[2]>>

\* the second loop of Hand.value: count aces as 1 while the total is over 21
RECURSIVE AdjustAces(_, _)
AdjustAces(total, aces) ==
    IF total > 21 /\ aces > 0 THEN AdjustAces(total - 10, aces - 1)
    ELSE <<total, aces>>

Hand_value_IfNotWhile(h) ==
    LET c == CountCards(h) IN
    IF c[1] > 21 /\ c[2] > 0 THEN c[1] - 10 ELSE c[1]

Hand_value(h) ==
    LET c == CountCards(h) IN AdjustAces(c[1], c[2])[1]

Hand_is_soft_AnyAce(h) == \E i \in 1..Len(h) : Rank(h[i]) = ACE

Hand_is_soft(h) ==
    IF ~(\E i \in 1..Len(h) : Rank(h[i]) = ACE) THEN FALSE
    ELSE LET c == CountCards(h) IN AdjustAces(c[1], c[2])[2] > 0

Hand_is_blackjack(h) == Len(h) = 2 /\ Hand_value(h) = 21

Hand_is_bust(h) == Hand_value(h) > 21

Hand_can_double(h) == Len(h) = 2

Hand_can_split(h) ==
    IF Len(h) # 2 THEN FALSE
    ELSE \/ Rank(h[1]) = Rank(h[2])
         \/ Card_value(h[1], FALSE) = Card_value(h[2], FALSE)

-----------------------------------------------------------------------------
(* GameResult *)

None == -1

\* a payout is a float: a number of tenths, or the float that is not a number
NaN == 1000000

\* the comparisons of floats: each is false when a side is not a number
Float_ge(a, b) == a # NaN /\ b # NaN /\ a >= b
Float_le(a, b) == a # NaN /\ b # NaN /\ a <= b
Float_gt(a, b) == a # NaN /\ b # NaN /\ a > b
Float_lt(a, b) == a # NaN /\ b # NaN /\ a < b

NoResult ==
    [outcome |-> "None", player_total |-> 0, dealer_total |-> None, payout |-> 0,
     player_busted |-> FALSE, dealer_busted |-> FALSE,
     player_blackjack |-> FALSE, dealer_blackjack |-> FALSE]

\* the dataclass constructor followed by __post_init__
GameResult(outcome, player_total, dealer_total, payout, player_busted, dealer_busted, player_blackjack, dealer_blackjack) ==
    [outcome |-> outcome,
     player_total |-> player_total,
     dealer_total |-> dealer_total,
     payout |->
        IF outcome = "LOSS" /\ Float_ge(payout, 0) THEN -10
        ELSE IF outcome = "WIN" /\ Float_le(payout, 0) THEN 10
        ELSE IF outcome = "BLACKJACK" /\ Float_le(payout, 10) THEN 15
        ELSE IF outcome = "PUSH" /\ payout # 0 THEN 0
        ELSE IF outcome = "SURRENDER" /\ payout # -5 THEN -5
        ELSE payout,
     player_busted |-> (player_total > 21) \/ player_busted,
     dealer_busted |-> (dealer_total # None /\ dealer_total > 21) \/ dealer_busted,
     player_blackjack |-> (outcome = "BLACKJACK") \/ player_blackjack,
     dealer_blackjack |-> dealer_blackjack]

-----------------------------------------------------------------------------
(* Counting system and CardCounter *)

HiLoSystem_card_value(c) ==
    IF Rank(c) \in {2, 3, 4, 5, 6} THEN 1
    ELSE IF Rank(c) \in {7, 8, 9} THEN 0
    ELSE -1

KOSystem_card_value(c) ==
    IF Rank(c) \in {2, 3, 4, 5, 6, 7} THEN 1
    ELSE IF Rank(c) \in {8, 9} THEN 0
    ELSE -1

HiOptISystem_card_value(c) ==
    IF Rank(c) \in {3, 4, 5, 6} THEN 1
    ELSE IF Rank(c) \in {2, 7, 8, 9, ACE} THEN 0
    ELSE -1

\* the systems CountingSystemManager registers, by name()
CountingSystems == {"Hi-Lo", "KO", "Hi-Opt I"}

\* system.card_value(card) of the system with this name
CountingSystem_card_value(sys, c) ==
    IF sys = "Hi-Lo" THEN HiLoSystem_card_value(c)
    ELSE IF sys = "KO" THEN KOSystem_card_value(c)
    ELSE HiOptISystem_card_value(c)

-----------------------------------------------------------------------------
(* The game as one record, so that a method is an operator from the state  *)
(* before the call to the state after it.  raised tells that the call      *)
(* ended in an exception; what was assigned before the raise stays.        *)

Cur ==
    [cards |-> cards, cards_dealt |-> cards_dealt,
     player_hand |-> player_hand, dealer_hand |-> dealer_hand,
     game_over |-> game_over, result |-> result,
     running_count |-> running_count, cards_seen |-> cards_seen,
     counted |-> counted, revealed |-> revealed, shuffles |-> shuffles,
     card |-> 0, raised |-> FALSE]

Raise(s) == [s EXCEPT !.raised = TRUE]

-----------------------------------------------------------------------------
(* Shoe *)

Shoe_total_cards == rules.num_decks * CardsPerDeck

\* int(self.total_cards * penetration)
Shoe_penetration_threshold == (Shoe_total_cards * rules.penetration) \div 100

\* _create_decks
Shoe_create_decks == [i \in 1..Shoe_total_cards |-> i]

Shoe_needs_shuffle_Strict(s) == s.cards_dealt > Shoe_penetration_threshold

Shoe_needs_shuffle(s) == s.cards_dealt >= Shoe_penetration_threshold

\* one outcome of random.shuffle: for each rank of top in turn the first
\* remaining card of that rank moves to the front; a rank no remaining card
\* has is skipped
RECURSIVE PickTop(_, _)
PickTop(cs, top) ==
    IF top = <<>> THEN <<<<>>, cs>>
    ELSE LET hits == {i \in 1..Len(cs) : Rank(cs[i]) = Head(top)} IN
         IF hits = {} THEN PickTop(cs, Tail(top))
         ELSE LET i == CHOOSE k \in hits : \A j \in hits : k <= j
                  r == PickTop(SubSeq(cs, 1, i - 1) \o SubSeq(cs, i + 1, Len(cs)),
                               Tail(top))
              IN  <<<<cs[i]>> \o r[1], r[2]>>

random_shuffle(cs, top) == LET r == PickTop(cs, top) IN r[1] \o r[2]

Shoe_shuffle(s, top) ==
    [s EXCEPT !.cards = random_shuffle(s.cards, top),
              !.cards_dealt = 0,
              !.shuffles = s.shuffles + 1]

Shoe_deal_card(s) ==
    IF Shoe_needs_shuffle(s) THEN Raise(s)
    ELSE IF s.cards = <<>> THEN Raise(s)
    ELSE [s EXCEPT !.card = Head(s.cards),
                   !.cards = Tail(s.cards),
                   !.cards_dealt = s.cards_dealt + 1]

-----------------------------------------------------------------------------
(* BlackjackGame *)

\* self.player_hand.add_card(self.shoe.deal_card())
DealToPlayer(s) ==
    LET d == Shoe_deal_card(s) IN
    IF d.raised THEN d
    ELSE [d EXCEPT !.player_hand = Append(d.player_hand, d.card)]

\* the hit of the dealer-play loop doing nothing
DealToDealer_Nothing(s) == s

\* self.dealer_hand.add_card(self.shoe.deal_card())
DealToDealer(s) ==
    LET d == Shoe_deal_card(s) IN
    IF d.raised THEN d
    ELSE [d EXCEPT !.dealer_hand = Append(d.dealer_hand, d.card)]

BlackjackGame_determine_winner(s) ==
    LET player_value == Hand_value(s.player_hand)
        dealer_value == Hand_value(s.dealer_hand)
        player_blackjack == Hand_is_blackjack(s.player_hand)
        dealer_blackjack == Hand_is_blackjack(s.dealer_hand)
        player_busted == Hand_is_bust(s.player_hand)
        dealer_busted == Hand_is_bust(s.dealer_hand)
    IN
    IF player_busted THEN
        GameResult("LOSS", player_value, dealer_value, -10, TRUE, FALSE, FALSE, FALSE)
    ELSE IF dealer_busted THEN
        GameResult("WIN", player_value, dealer_value, 10, FALSE, TRUE, FALSE, FALSE)
    ELSE IF player_blackjack /\ dealer_blackjack THEN
        GameResult("PUSH", player_value, dealer_value, 0, FALSE, FALSE, TRUE, TRUE)
    ELSE IF player_blackjack /\ ~dealer_blackjack THEN
        GameResult("BLACKJACK", player_value, dealer_value, rules.blackjack_payout,
                   FALSE, FALSE, TRUE, FALSE)
    ELSE IF dealer_blackjack /\ ~player_blackjack THEN
        GameResult("LOSS", player_value, dealer_value, -10, FALSE, FALSE, FALSE, TRUE)
    ELSE IF player_value > dealer_value THEN
        GameResult("WIN", player_value, dealer_value, 10, FALSE, FALSE, FALSE, FALSE)
    ELSE IF player_value < dealer_value THEN
        GameResult("LOSS", player_value, dealer_value, -10, FALSE, FALSE, FALSE, FALSE)
    ELSE
        GameResult("PUSH", player_value, dealer_value, 0, FALSE, FALSE, FALSE, FALSE)

\* DealerHits with the soft-17 rule left out: the dealer stands on every 17
DealerHits_NoSoft17(h) == Hand_value(h) < 17

\* whether the dealer-play loop takes another card with this dealer hand
DealerHits(h) ==
    LET dealer_value == Hand_value(h) IN
    IF dealer_value >= 17
    THEN dealer_value = 17 /\ Hand_is_soft(h) /\ rules.dealer_hits_soft_17
    ELSE TRUE

\* the while True loop of _dealer_play
RECURSIVE DealerLoop(_)
DealerLoop(s) ==
    IF DealerHits(s.dealer_hand)
    THEN LET d == DealToDealer(s) IN
         IF d.raised THEN d ELSE DealerLoop(d)
    ELSE s

BlackjackGame_dealer_play(s) ==
    IF Hand_is_bust(s.player_hand) THEN s ELSE DealerLoop(s)

\* deal_initial_cards dealing both player cards before the dealer's
BlackjackGame_deal_initial_cards_PlayerFirst(s) ==
    IF Len(s.player_hand) > 0 \/ Len(s.dealer_hand) > 0 THEN Raise(s)
    ELSE IF Shoe_needs_shuffle(s) THEN Raise(s)
    ELSE LET s1 == DealToPlayer(s)
             s2 == IF s1.raised THEN s1 ELSE DealToPlayer(s1)
             s3 == IF s2.raised THEN s2 ELSE DealToDealer(s2)
             s4 == IF s3.raised THEN s3 ELSE DealToDealer(s3)
         IN
         IF s4.raised THEN s4
         ELSE IF Hand_is_blackjack(s4.player_hand) \/ Hand_is_blackjack(s4.dealer_hand)
         THEN [s4 EXCEPT !.game_over = TRUE,
                         !.result = BlackjackGame_determine_winner(s4)]
         ELSE s4

\* deal_initial_cards testing only the player's hand for a natural
BlackjackGame_deal_initial_cards_PlayerNaturalOnly(s) ==
    IF Len(s.player_hand) > 0 \/ Len(s.dealer_hand) > 0 THEN Raise(s)
    ELSE IF Shoe_needs_shuffle(s) THEN Raise(s)
    ELSE LET s1 == DealToPlayer(s)
             s2 == IF s1.raised THEN s1 ELSE DealToDealer(s1)
             s3 == IF s2.raised THEN s2 ELSE DealToPlayer(s2)
             s4 == IF s3.raised THEN s3 ELSE DealToDealer(s3)
         IN
         IF s4.raised THEN s4
         ELSE IF Hand_is_blackjack(s4.player_hand)
         THEN [s4 EXCEPT !.game_over = TRUE,
                         !.result = BlackjackGame_determine_winner(s4)]
         ELSE s4

BlackjackGame_deal_initial_cards(s) ==
    IF Len(s.player_hand) > 0 \/ Len(s.dealer_hand) > 0 THEN Raise(s)
    ELSE IF Shoe_needs_shuffle(s) THEN Raise(s)
    ELSE LET s1 == DealToPlayer(s)
             s2 == IF s1.raised THEN s1 ELSE DealToDealer(s1)
             s3 == IF s2.raised THEN s2 ELSE DealToPlayer(s2)
             s4 == IF s3.raised THEN s3 ELSE DealToDealer(s3)
         IN
         IF s4.raised THEN s4
         ELSE IF Hand_is_blackjack(s4.player_hand) \/ Hand_is_blackjack(s4.dealer_hand)
         THEN [s4 EXCEPT !.game_over = TRUE,
                         !.result = BlackjackGame_determine_winner(s4)]
         ELSE s4

\* player_hit without the test of game_over
BlackjackGame_player_hit_NoOverTest(s) ==
    IF Len(s.player_hand) = 0 THEN Raise(s)
    ELSE LET d == DealToPlayer(s) IN
         IF d.raised THEN d
         ELSE IF Hand_is_bust(d.player_hand)
         THEN [d EXCEPT !.game_over = TRUE,
                        !.result = GameResult("LOSS", Hand_value(d.player_hand),
                                              Hand_value(d.dealer_hand), 0,
                                              TRUE, FALSE, FALSE, FALSE)]
         ELSE d

BlackjackGame_player_hit(s) ==
    IF s.game_over THEN Raise(s)
    ELSE IF Len(s.player_hand) = 0 THEN Raise(s)
    ELSE LET d == DealToPlayer(s) IN
         IF d.raised THEN d
         ELSE IF Hand_is_bust(d.player_hand)
         THEN [d EXCEPT !.game_over = TRUE,
                        !.result = GameResult("LOSS", Hand_value(d.player_hand),
                                              Hand_value(d.dealer_hand), 0,
                                              TRUE, FALSE, FALSE, FALSE)]
         ELSE d

\* player_stand without the test of game_over
BlackjackGame_player_stand_NoOverTest(s) ==
    IF Len(s.player_hand) = 0 THEN Raise(s)
    ELSE LET d == BlackjackGame_dealer_play(s) IN
         IF d.raised THEN d
         ELSE [d EXCEPT !.game_over = TRUE,
                        !.result = BlackjackGame_determine_winner(d)]

BlackjackGame_player_stand(s) ==
    IF s.game_over THEN Raise(s)
    ELSE IF Len(s.player_hand) = 0 THEN Raise(s)
    ELSE LET d == BlackjackGame_dealer_play(s) IN
         IF d.raised THEN d
         ELSE [d EXCEPT !.game_over = TRUE,
                        !.result = BlackjackGame_determine_winner(d)]

BlackjackGame_can_double(s) ==
    ~s.game_over /\ Hand_can_double(s.player_hand) /\ ~Hand_is_blackjack(s.player_hand)

\* can_surrender without the test of rules.surrender_allowed
BlackjackGame_can_surrender_AnyRules(s) ==
    /\ ~s.game_over
    /\ Len(s.player_hand) = 2
    /\ ~Hand_is_blackjack(s.player_hand)

BlackjackGame_can_surrender(s) ==
    /\ ~s.game_over
    /\ rules.surrender_allowed
    /\ Len(s.player_hand) = 2
    /\ ~Hand_is_blackjack(s.player_hand)

\* DoublePayout doubling a positive payout only
DoublePayout_PositiveOnly(r) ==
    IF Float_gt(r.payout, 0) THEN [r EXCEPT !.payout = r.payout * 2] ELSE r

BlackjackGame_can_split(s) ==
    ~s.game_over /\ Hand_can_split(s.player_hand) /\ ~Hand_is_blackjack(s.player_hand)

\* get_available_actions without the test for an empty player hand
BlackjackGame_get_available_actions_NoStartTest(s) ==
    IF s.game_over THEN <<>>
    ELSE <<"HIT", "STAND">>
         \o (IF BlackjackGame_can_double(s) THEN <<"DOUBLE">> ELSE <<>>)
         \o (IF BlackjackGame_can_split(s) THEN <<"SPLIT">> ELSE <<>>)
         \o (IF BlackjackGame_can_surrender(s) THEN <<"SURRENDER">> ELSE <<>>)

BlackjackGame_get_available_actions(s) ==
    IF s.game_over \/ Len(s.player_hand) = 0 THEN <<>>
    ELSE <<"HIT", "STAND">>
         \o (IF BlackjackGame_can_double(s) THEN <<"DOUBLE">> ELSE <<>>)
         \o (IF BlackjackGame_can_split(s) THEN <<"SPLIT">> ELSE <<>>)
         \o (IF BlackjackGame_can_surrender(s) THEN <<"SURRENDER">> ELSE <<>>)

\* self.result.payout *= 2, for a positive and for a negative payout
DoublePayout(r) ==
    IF Float_gt(r.payout, 0) THEN [r EXCEPT !.payout = r.payout * 2]
    ELSE IF Float_lt(r.payout, 0) THEN [r EXCEPT !.payout = r.payout * 2]
    ELSE r

BlackjackGame_player_double(s) ==
    IF s.game_over THEN Raise(s)
    ELSE IF ~BlackjackGame_can_double(s) THEN Raise(s)
    ELSE LET d == DealToPlayer(s) IN
         IF d.raised THEN d
         ELSE IF Hand_is_bust(d.player_hand)
         THEN [d EXCEPT !.game_over = TRUE,
                        !.result = GameResult("LOSS", Hand_value(d.player_hand),
                                              Hand_value(d.dealer_hand), -20,
                                              TRUE, FALSE, FALSE, FALSE)]
         ELSE LET e == BlackjackGame_dealer_play(d) IN
              IF e.raised THEN e
              ELSE [e EXCEPT !.game_over = TRUE,
                             !.result = DoublePayout(BlackjackGame_determine_winner(e))]

\* player_surrender setting the flag but no result
BlackjackGame_player_surrender_NoResult(s) ==
    IF s.game_over THEN Raise(s)
    ELSE IF ~BlackjackGame_can_surrender(s) THEN Raise(s)
    ELSE [s EXCEPT !.game_over = TRUE]

BlackjackGame_player_surrender(s) ==
    IF s.game_over THEN Raise(s)
    ELSE IF ~BlackjackGame_can_surrender(s) THEN Raise(s)
    ELSE [s EXCEPT !.game_over = TRUE,
                   !.result = GameResult("SURRENDER", Hand_value(s.player_hand),
                                         None, -5, FALSE, FALSE, FALSE, FALSE)]

BlackjackGame_get_result(s) == IF s.game_over THEN s.result ELSE NoResult

\* reset up to the test of needs_shuffle; the shuffle is the caller's branch
BlackjackGame_reset_hands(s) ==
    [s EXCEPT !.player_hand = <<>>, !.dealer_hand = <<>>,
              !.game_over = FALSE, !.result = NoResult]

\* reset that never shuffles
BlackjackGame_reset_NoShuffle(s, top) == BlackjackGame_reset_hands(s)

BlackjackGame_reset(s, top) ==
    LET c == BlackjackGame_reset_hands(s) IN
    IF Shoe_needs_shuffle(c) THEN Shoe_shuffle(c, top) ELSE c

-----------------------------------------------------------------------------
(* CountingBlackjackGame *)

\* update_count adding one for every card, whatever the system
CardCounter_update_count_Unweighted(s, c) ==
    [s EXCEPT !.running_count = @ + 1,
              !.cards_seen = @ + 1,
              !.counted = Append(@, c)]

\* self.system is the game's counting_system: both are set together
CardCounter_update_count(s, c) ==
    [s EXCEPT !.running_count = @ + CountingSystem_card_value(counting_system, c),
              !.cards_seen = @ + 1,
              !.counted = Append(@, c)]

CardCounter_reset(s) ==
    [s EXCEPT !.running_count = 0, !.cards_seen = 0, !.counted = <<>>]

\* CardCounter(system, num_decks): a new counter
CardCounter_init(s) ==
    [s EXCEPT !.running_count = 0, !.cards_seen = 0, !.counted = <<>>]

\* a float that is a ratio of two whole numbers, kept as the ratio
Float(num, den) == [num |-> num, den |-> den]

\* x / y for y > 0
Float_div(x, y) == Float(x.num * y.den, x.den * y.num)

CardCounter_remaining_decks(s) ==
    LET cards_per_deck == CardsPerDeck
        total_cards == rules.num_decks * cards_per_deck
        remaining_cards == total_cards - s.cards_seen
    IN  Float(remaining_cards, cards_per_deck)

CardCounter_true_count_AllDecks(s) ==
    Float_div(Float(s.running_count, 1), Float(rules.num_decks, 1))

CardCounter_true_count(s) ==
    LET remaining_decks == CardCounter_remaining_decks(s) IN
    IF remaining_decks.num <= 0 THEN Float(0, 1)
    ELSE Float_div(Float(s.running_count, 1), remaining_decks)

notify_card_revealed(s, c) ==
    [CardCounter_update_count(s, c) EXCEPT !.revealed = Append(@, c)]

notify_shuffle(s) == CardCounter_reset(s)

\* _notify_card_revealed for each card of cs in order
RECURSIVE RevealAll(_, _)
RevealAll(s, cs) ==
    IF cs = <<>> THEN s
    ELSE RevealAll(notify_card_revealed(s, Head(cs)), Tail(cs))

reveal_dealer_cards(s) ==
    LET n == Len(s.dealer_hand)
        s1 == IF n >= 2 THEN notify_card_revealed(s, s.dealer_hand[2]) ELSE s
    IN  RevealAll(s1, SubSeq(s.dealer_hand, 3, n))

CountingBlackjackGame_deal_initial_cards(s, top) ==
    LET s0 == IF Shoe_needs_shuffle(s) THEN notify_shuffle(Shoe_shuffle(s, top)) ELSE s
        d == BlackjackGame_deal_initial_cards(s0)
    IN
    IF d.raised THEN d
    ELSE LET p == RevealAll(d, d.player_hand) IN
         IF Len(p.dealer_hand) > 0 THEN notify_card_revealed(p, p.dealer_hand[1]) ELSE p

\* player_hit without the notification of the card
CountingBlackjackGame_player_hit_NoReveal(s) == BlackjackGame_player_hit(s)

CountingBlackjackGame_player_hit(s) ==
    LET d == BlackjackGame_player_hit(s) IN
    IF d.raised THEN d ELSE notify_card_revealed(d, d.card)

\* the card player_double returns is the player's third card
CountingBlackjackGame_player_double(s) ==
    LET d == BlackjackGame_player_double(s) IN
    IF d.raised THEN d
    ELSE LET p == notify_card_revealed(d, d.player_hand[Len(d.player_hand)]) IN
         IF p.game_over /\ ~Hand_is_bust(p.player_hand)
         THEN reveal_dealer_cards(p) ELSE p

CountingBlackjackGame_player_stand(s) ==
    LET d == BlackjackGame_player_stand(s) IN
    IF d.raised THEN d
    ELSE IF d.game_over THEN reveal_dealer_cards(d) ELSE d

CountingBlackjackGame_player_surrender(s) == BlackjackGame_player_surrender(s)

CountingBlackjackGame_reset(s, top) ==
    LET d == BlackjackGame_reset(s, top) IN
    IF d.cards_dealt = 0 THEN notify_shuffle(d) ELSE d

\* switch_counting_system keeping the old counter
CountingBlackjackGame_switch_counting_system_KeepCounter(s, new_system) == s

\* the counter switch_counting_system leaves; the game's counting_system
\* becomes new_system
CountingBlackjackGame_switch_counting_system(s, new_system) == CardCounter_init(s)

-----------------------------------------------------------------------------
(* The operations a caller has *)

NotStarted == ~game_over /\ Len(player_hand) = 0 /\ Len(dealer_hand) = 0
InProgress == ~game_over /\ Len(player_hand) > 0
Over == game_over

\* no function has been called yet
NoProbe == [f |-> "none"]

EngineOps ==
    {"deal_initial_cards", "player_hit", "player_stand", "player_double",
     "player_surrender"}

\* the state after a call of op that left the game as the record r
Commit(r, op) ==
    /\ cards' = r.cards
    /\ cards_dealt' = r.cards_dealt
    /\ player_hand' = r.player_hand
    /\ dealer_hand' = r.dealer_hand
    /\ game_over' = r.game_over
    /\ result' = r.result
    /\ running_count' = r.running_count
    /\ cards_seen' = r.cards_seen
    /\ counted' = r.counted
    /\ revealed' = r.revealed
    /\ shuffles' = r.shuffles
    /\ last' = [op |-> op, ok |-> ~r.raised]
    /\ UNCHANGED <<rules, counting_system, switches, probe>>

Init ==
    /\ rules \in RulesChoices
    /\ \E top \in ShuffleTops : cards = random_shuffle(Shoe_create_decks, top)
    /\ cards_dealt = 0
    /\ player_hand = <<>>
    /\ dealer_hand = <<>>
    /\ game_over = FALSE
    /\ result = NoResult
    /\ counting_system = "Hi-Lo"
    /\ running_count = 0
    /\ cards_seen = 0
    /\ counted = <<>>
    /\ revealed = <<>>
    /\ shuffles = 0
    /\ switches = 0
    /\ last = [op |-> "init", ok |-> TRUE]
    /\ probe = NoProbe

deal_initial_cards ==
    IF Shoe_needs_shuffle(Cur)
    THEN /\ shuffles < MaxShuffles
         /\ \E top \in ShuffleTops :
              \E r \in {CountingBlackjackGame_deal_initial_cards(Cur, top)} :
                Commit(r, "deal_initial_cards")
    ELSE \E r \in {CountingBlackjackGame_deal_initial_cards(Cur, <<>>)} :
           Commit(r, "deal_initial_cards")

player_hit ==
    \E r \in {CountingBlackjackGame_player_hit(Cur)} :
    /\ r.shuffles = shuffles      \* the call reaches no Shoe.shuffle()
    /\ Commit(r, "player_hit")

player_stand ==
    \E r \in {CountingBlackjackGame_player_stand(Cur)} :
    /\ r.shuffles = shuffles      \* the call reaches no Shoe.shuffle()
    /\ Commit(r, "player_stand")

player_double ==
    \E r \in {CountingBlackjackGame_player_double(Cur)} :
    /\ r.shuffles = shuffles      \* the call reaches no Shoe.shuffle()
    /\ Commit(r, "player_double")

player_surrender ==
    \E r \in {CountingBlackjackGame_player_surrender(Cur)} :
    /\ r.shuffles = shuffles      \* the call reaches no Shoe.shuffle()
    /\ Commit(r, "player_surrender")

\* reset() starts the next hand, so the history of revealed cards starts anew
reset ==
    IF Shoe_needs_shuffle(Cur)
    THEN /\ shuffles < MaxShuffles
         /\ \E top \in ShuffleTops :
              \E r \in {CountingBlackjackGame_reset(Cur, top)} :
                Commit([r EXCEPT !.revealed = <<>>], "reset")
    ELSE \E r \in {CountingBlackjackGame_reset(Cur, <<>>)} :
           Commit([r EXCEPT !.revealed = <<>>], "reset")

Next ==
    \/ deal_initial_cards
    \/ player_hit
    \/ player_stand
    \/ player_double
    \/ player_surrender
    \/ reset

Spec == Init /\ [][Next]_vars

-----------------------------------------------------------------------------
(* The game with switch_counting_system among the calls *)

switch_counting_system ==
    /\ switches < MaxSwitches
    /\ \E new_system \in CountingSystems :
         \E r \in {CountingBlackjackGame_switch_counting_system(Cur, new_system)} :
         /\ cards' = r.cards
         /\ cards_dealt' = r.cards_dealt
         /\ player_hand' = r.player_hand
         /\ dealer_hand' = r.dealer_hand
         /\ game_over' = r.game_over
         /\ result' = r.result
         /\ counting_system' = new_system
         /\ running_count' = r.running_count
         /\ cards_seen' = r.cards_seen
         /\ counted' = r.counted
         /\ revealed' = r.revealed
         /\ shuffles' = r.shuffles
         /\ switches' = switches + 1
         /\ last' = [op |-> "switch_counting_system", ok |-> TRUE,
                      new_system |-> new_system]
         /\ UNCHANGED <<rules, probe>>

\* a call that would shuffle is left out once MaxSwitchShuffles is reached
NextSwitch ==
    \/ (Shoe_needs_shuffle(Cur) => shuffles < MaxSwitchShuffles) /\ deal_initial_cards
    \/ player_hit
    \/ player_stand
    \/ player_double
    \/ player_surrender
    \/ (Shoe_needs_shuffle(Cur) => shuffles < MaxSwitchShuffles) /\ reset
    \/ switch_counting_system

SpecSwitch == Init /\ [][NextSwitch]_vars

-----------------------------------------------------------------------------
(* The game with the while True loop of _dealer_play taken one iteration at *)
(* a time.  While player_stand or player_double is inside _dealer_play,     *)
(* probe holds the frame of the call: the operation, the game as it was     *)
(* when the operation was called, and the number of iterations of the loop  *)
(* that went on to another; no other call begins before it returns.         *)

InDealerPlay == probe.f = "_dealer_play"

\* the state after a step that leaves the game as the record r, the last
\* call as l and the frame as p
CommitStep(r, l, p) ==
    /\ cards' = r.cards
    /\ cards_dealt' = r.cards_dealt
    /\ player_hand' = r.player_hand
    /\ dealer_hand' = r.dealer_hand
    /\ game_over' = r.game_over
    /\ result' = r.result
    /\ running_count' = r.running_count
    /\ cards_seen' = r.cards_seen
    /\ counted' = r.counted
    /\ revealed' = r.revealed
    /\ shuffles' = r.shuffles
    /\ last' = l
    /\ probe' = p
    /\ UNCHANGED <<rules, counting_system, switches>>

\* player_stand() up to the call of _dealer_play
player_stand_call ==
    /\ ~InDealerPlay
    /\ IF game_over \/ Len(player_hand) = 0
       THEN CommitStep(Raise(Cur), [op |-> "player_stand", ok |-> FALSE], NoProbe)
       ELSE CommitStep(Cur, last,
                       [f |-> "_dealer_play", op |-> "player_stand", entry |-> Cur,
                        draws |-> 0])

\* player_double() up to the call of _dealer_play, and to its end where it
\* does not call _dealer_play
player_double_call ==
    /\ ~InDealerPlay
    /\ IF game_over \/ ~BlackjackGame_can_double(Cur)
       THEN CommitStep(Raise(Cur), [op |-> "player_double", ok |-> FALSE], NoProbe)
       ELSE \E d \in {DealToPlayer(Cur)} :
            IF d.raised \/ Hand_is_bust(d.player_hand)
            THEN \E r \in {CountingBlackjackGame_player_double(Cur)} :
                   CommitStep(r, [op |-> "player_double", ok |-> ~r.raised], NoProbe)
            ELSE CommitStep(d, last,
                            [f |-> "_dealer_play", op |-> "player_double",
                             entry |-> Cur, draws |-> 0])

\* what player_stand and player_double do after _dealer_play has returned
AfterDealerPlay(s, op) ==
    IF op = "player_stand"
    THEN LET d == [s EXCEPT !.game_over = TRUE,
                            !.result = BlackjackGame_determine_winner(s)]
         IN  IF d.game_over THEN reveal_dealer_cards(d) ELSE d
    ELSE LET d == [s EXCEPT !.game_over = TRUE,
                            !.result = DoublePayout(BlackjackGame_determine_winner(s))]
             p == notify_card_revealed(d, d.player_hand[Len(d.player_hand)])
         IN  IF p.game_over /\ ~Hand_is_bust(p.player_hand)
             THEN reveal_dealer_cards(p) ELSE p

\* one test of the loop of _dealer_play (the first one after the test of a
\* player bust): the dealer takes a card, or the shoe refuses it and the
\* operation fails, or the dealer stands and the operation completes
dealer_play_step ==
    /\ InDealerPlay
    /\ IF ~Hand_is_bust(player_hand) /\ DealerHits(dealer_hand)
       THEN \E d \in {DealToDealer(Cur)} :
            IF d.raised
            THEN CommitStep(d, [op |-> probe.op, ok |-> FALSE], NoProbe)
            ELSE CommitStep(d, last, [probe EXCEPT !.draws = @ + 1])
       ELSE \E r \in {AfterDealerPlay(Cur, probe.op)} :
            CommitStep(r, [op |-> probe.op, ok |-> TRUE], NoProbe)

\* a call that would shuffle is left out once MaxDealerPlayShuffles is reached
NextDealerPlay ==
    \/ /\ ~InDealerPlay
       /\ Shoe_needs_shuffle(Cur) => shuffles < MaxDealerPlayShuffles
       /\ deal_initial_cards
    \/ ~InDealerPlay /\ player_hit
    \/ player_stand_call
    \/ player_double_call
    \/ dealer_play_step
    \/ ~InDealerPlay /\ player_surrender
    \/ /\ ~InDealerPlay
       /\ Shoe_needs_shuffle(Cur) => shuffles < MaxDealerPlayShuffles
       /\ reset

SpecDealerPlay == Init /\ [][NextDealerPlay]_vars

-----------------------------------------------------------------------------
(* GameResult constructed by a caller *)

Outcomes == {"WIN", "LOSS", "PUSH", "BLACKJACK", "SURRENDER"}

PayoutInputs == (-MaxPayout..MaxPayout) \cup {NaN}

\* one game, beside which the functions that take no game are called
InitProbe ==
    /\ Init
    /\ rules.blackjack_payout = 15
    /\ Rank(cards[1]) = ACE /\ Rank(cards[2]) = 10

\* GameResult(outcome, player_total, dealer_total, payout)
construct_GameResult ==
    /\ probe = NoProbe
    /\ \E outcome \in Outcomes, payout \in PayoutInputs,
          player_total \in {20, 22}, dealer_total \in {None, 19, 23} :
         probe' = [f |-> "GameResult", outcome |-> outcome, payout |-> payout,
                   value |-> GameResult(outcome, player_total, dealer_total, payout,
                                        FALSE, FALSE, FALSE, FALSE)]
    /\ UNCHANGED <<rules, cards, cards_dealt, player_hand, dealer_hand, game_over,
                   result, counting_system, running_count, cards_seen, counted,
                   revealed, shuffles, switches, last>>

\* self.result.payout *= 2 of player_double, on a result of _determine_winner
double_payout ==
    /\ probe.f = "GameResult"
    /\ probe.value.outcome \in {"WIN", "LOSS", "PUSH", "BLACKJACK"}
    /\ probe' = [probe EXCEPT !.f = "payout_doubled", !.value = DoublePayout(@)]
    /\ UNCHANGED <<rules, cards, cards_dealt, player_hand, dealer_hand, game_over,
                   result, counting_system, running_count, cards_seen, counted,
                   revealed, shuffles, switches, last>>

NextGameResult ==
    \/ construct_GameResult
    \/ double_payout

SpecGameResult == InitProbe /\ [][NextGameResult]_vars

-----------------------------------------------------------------------------
(* BasicStrategy *)

\* _hard_strategy: row t - 4 is the hard total t (5..21), column d - 1 the
\* dealer value d (2..11)
BasicStrategy_hard_strategy ==
    LET H == "HIT"  S == "STAND"  D == "DOUBLE"  P == "SPLIT" IN
    << <<H, H, H, H, H, H, H, H, H, H>>,
      <<H, H, H, H, H, H, H, H, H, H>>,
      <<H, H, H, H, H, H, H, H, H, H>>,
      <<H, H, H, H, H, H, H, H, H, H>>,
      <<H, D, D, D, D, H, H, H, H, H>>,
      <<D, D, D, D, D, D, D, D, H, H>>,
      <<D, D, D, D, D, D, D, D, D, H>>,
      <<H, H, S, S, S, H, H, H, H, H>>,
      <<S, S, S, S, S, H, H, H, H, H>>,
      <<S, S, S, S, S, H, H, H, H, H>>,
      <<S, S, S, S, S, H, H, H, H, H>>,
      <<S, S, S, S, S, H, H, H, H, H>>,
      <<S, S, S, S, S, S, S, S, S, S>>,
      <<S, S, S, S, S, S, S, S, S, S>>,
      <<S, S, S, S, S, S, S, S, S, S>>,
      <<S, S, S, S, S, S, S, S, S, S>>,
      <<S, S, S, S, S, S, S, S, S, S>> >>

\* _soft_strategy: row t - 12 is the soft total t (13..20), column d - 1 the
\* dealer value d
BasicStrategy_soft_strategy ==
    LET H == "HIT"  S == "STAND"  D == "DOUBLE"  P == "SPLIT" IN
    << <<H, H, H, D, D, H, H, H, H, H>>,
      <<H, H, H, D, D, H, H, H, H, H>>,
      <<H, H, D, D, D, H, H, H, H, H>>,
      <<H, H, D, D, D, H, H, H, H, H>>,
      <<H, D, D, D, D, H, H, H, H, H>>,
      <<S, D, D, D, D, S, S, H, H, H>>,
      <<S, S, S, S, S, S, S, S, S, S>>,
      <<S, S, S, S, S, S, S, S, S, S>> >>

\* _pair_strategy: row r is the rank r of the first card (1 = ace, 11..13 =
\* J, Q, K), column d - 1 the dealer value d
BasicStrategy_pair_strategy ==
    LET H == "HIT"  S == "STAND"  D == "DOUBLE"  P == "SPLIT" IN
    << <<P, P, P, P, P, P, P, P, P, P>>,
      <<P, P, P, P, P, P, H, H, H, H>>,
      <<P, P, P, P, P, P, H, H, H, H>>,
      <<H, H, H, H, H, H, H, H, H, H>>,
      <<D, D, D, D, D, D, D, D, H, H>>,
      <<P, P, P, P, P, H, H, H, H, H>>,
      <<P, P, P, P, P, P, H, H, H, H>>,
      <<P, P, P, P, P, P, P, P, P, P>>,
      <<P, P, P, P, P, S, P, P, S, S>>,
      <<S, S, S, S, S, S, S, S, S, S>>,
      <<S, S, S, S, S, S, S, S, S, S>>,
      <<S, S, S, S, S, S, S, S, S, S>>,
      <<S, S, S, S, S, S, S, S, S, S>> >>

\* 11 if dealer_up.rank == Rank.ACE else dealer_up.value(ace_as_eleven=False)
Strategy_dealer_value(dealer_up) ==
    IF Rank(dealer_up) = ACE THEN 11 ELSE Card_value(dealer_up, FALSE)

\* _get_hard_action without the downgrade of a double that is not possible
BasicStrategy_get_hard_action_NoDowngrade(player_total, dealer_value, can_double) ==
    IF player_total \in 5..21 /\ dealer_value \in 2..11
    THEN BasicStrategy_hard_strategy[player_total - 4][dealer_value - 1]
    ELSE "STAND"

BasicStrategy_get_hard_action(player_total, dealer_value, can_double) ==
    LET action == IF player_total \in 5..21 /\ dealer_value \in 2..11
                  THEN BasicStrategy_hard_strategy[player_total - 4][dealer_value - 1]
                  ELSE "STAND"
    IN  IF action = "DOUBLE" /\ ~can_double THEN "HIT" ELSE action

BasicStrategy_get_soft_action_NoDowngrade(player_total, dealer_value, can_double) ==
    IF player_total \in 13..20 /\ dealer_value \in 2..11
    THEN BasicStrategy_soft_strategy[player_total - 12][dealer_value - 1]
    ELSE "STAND"

BasicStrategy_get_soft_action(player_total, dealer_value, can_double) ==
    LET action == IF player_total \in 13..20 /\ dealer_value \in 2..11
                  THEN BasicStrategy_soft_strategy[player_total - 12][dealer_value - 1]
                  ELSE "STAND"
    IN  IF action = "DOUBLE" /\ ~can_double THEN "HIT" ELSE action

BasicStrategy_get_pair_action_KeyMissing(pair_rank, dealer_value) == "HIT"

BasicStrategy_get_pair_action(pair_rank, dealer_value) ==
    IF dealer_value \in 2..11
    THEN BasicStrategy_pair_strategy[pair_rank][dealer_value - 1]
    ELSE "HIT"

BasicStrategy_get_action(player_hand_, dealer_up) ==
    IF Hand_is_blackjack(player_hand_) THEN "STAND"
    ELSE LET player_total == Hand_value(player_hand_)
             dealer_value == Strategy_dealer_value(dealer_up)
             can_double == Hand_can_double(player_hand_)
         IN
         IF /\ Hand_can_split(player_hand_) /\ Len(player_hand_) = 2
            /\ BasicStrategy_get_pair_action(Rank(player_hand_[1]), dealer_value) = "SPLIT"
         THEN "SPLIT"
         ELSE IF Hand_is_soft(player_hand_)
         THEN BasicStrategy_get_soft_action(player_total, dealer_value, can_double)
         ELSE BasicStrategy_get_hard_action(player_total, dealer_value, can_double)

-----------------------------------------------------------------------------
(* DeviationStrategy *)

\* _deviation_thresholds as _load_common_deviations fills it
DeviationStrategy_deviation_thresholds ==
    { [player_total |-> 16, dealer_value |-> 10, action |-> "STAND",  threshold |-> 0],
      [player_total |-> 15, dealer_value |-> 10, action |-> "STAND",  threshold |-> 4],
      [player_total |-> 13, dealer_value |-> 2,  action |-> "HIT",    threshold |-> -1],
      [player_total |-> 12, dealer_value |-> 3,  action |-> "HIT",    threshold |-> -2],
      [player_total |-> 12, dealer_value |-> 2,  action |-> "STAND",  threshold |-> 3],
      [player_total |-> 12, dealer_value |-> 4,  action |-> "STAND",  threshold |-> 0],
      [player_total |-> 12, dealer_value |-> 5,  action |-> "HIT",    threshold |-> -2],
      [player_total |-> 12, dealer_value |-> 6,  action |-> "HIT",    threshold |-> -1],
      [player_total |-> 10, dealer_value |-> 10, action |-> "DOUBLE", threshold |-> 4],
      [player_total |-> 11, dealer_value |-> 11, action |-> "DOUBLE", threshold |-> 1],
      [player_total |-> 9,  dealer_value |-> 2,  action |-> "DOUBLE", threshold |-> 1],
      [player_total |-> 9,  dealer_value |-> 7,  action |-> "DOUBLE", threshold |-> 3],
      [player_total |-> 8,  dealer_value |-> 6,  action |-> "DOUBLE", threshold |-> 2],
      [player_total |-> 20, dealer_value |-> 5,  action |-> "SPLIT",  threshold |-> 5],
      [player_total |-> 20, dealer_value |-> 6,  action |-> "SPLIT",  threshold |-> 4] }

\* self._deviation_thresholds.get((player_total, dealer_value, action), ...):
\* every key _check_deviations asks for is in the table
DeviationStrategy_threshold(player_total, dealer_value, action) ==
    (CHOOSE e \in DeviationStrategy_deviation_thresholds :
        /\ e.player_total = player_total /\ e.dealer_value = dealer_value
        /\ e.action = action).threshold

\* the action _check_deviations returns, "None" where it returns None
DeviationStrategy_check_deviations(player_total, dealer_value, true_count, player_hand_) ==
    IF player_total = 16 /\ dealer_value = 10
    THEN (IF true_count >= DeviationStrategy_threshold(16, 10, "STAND")
          THEN "STAND" ELSE "HIT")
    ELSE IF /\ player_total = 15 /\ dealer_value = 10
            /\ true_count >= DeviationStrategy_threshold(15, 10, "STAND")
    THEN "STAND"
    ELSE IF /\ player_total = 13 /\ dealer_value = 2
            /\ true_count <= DeviationStrategy_threshold(13, 2, "HIT")
    THEN "HIT"
    ELSE IF /\ player_total = 12 /\ dealer_value = 3
            /\ true_count <= DeviationStrategy_threshold(12, 3, "HIT")
    THEN "HIT"
    ELSE IF /\ player_total = 12 /\ dealer_value = 2
            /\ true_count >= DeviationStrategy_threshold(12, 2, "STAND")
    THEN "STAND"
    ELSE IF /\ player_total = 10 /\ dealer_value = 10 /\ Hand_can_double(player_hand_)
            /\ true_count >= DeviationStrategy_threshold(10, 10, "DOUBLE")
    THEN "DOUBLE"
    ELSE IF /\ player_total = 11 /\ dealer_value = 11 /\ Hand_can_double(player_hand_)
            /\ true_count >= DeviationStrategy_threshold(11, 11, "DOUBLE")
    THEN "DOUBLE"
    ELSE IF /\ player_total = 9 /\ dealer_value = 2 /\ Hand_can_double(player_hand_)
            /\ true_count >= DeviationStrategy_threshold(9, 2, "DOUBLE")
    THEN "DOUBLE"
    ELSE IF /\ Hand_can_split(player_hand_) /\ Len(player_hand_) = 2
            /\ Card_value(player_hand_[1], FALSE) = 10 /\ dealer_value = 5
            /\ true_count >= DeviationStrategy_threshold(20, 5, "SPLIT")
    THEN "SPLIT"
    ELSE IF /\ Hand_can_split(player_hand_) /\ Len(player_hand_) = 2
            /\ Card_value(player_hand_[1], FALSE) = 10 /\ dealer_value = 6
            /\ true_count >= DeviationStrategy_threshold(20, 6, "SPLIT")
    THEN "SPLIT"
    ELSE "None"

DeviationStrategy_get_action_NoFallback(player_hand_, dealer_up, true_count) ==
    IF Hand_is_blackjack(player_hand_) THEN "STAND"
    ELSE DeviationStrategy_check_deviations(
             Hand_value(player_hand_), Strategy_dealer_value(dealer_up),
             true_count, player_hand_)

DeviationStrategy_get_action(player_hand_, dealer_up, true_count) ==
    IF Hand_is_blackjack(player_hand_) THEN "STAND"
    ELSE LET deviation_action ==
                 DeviationStrategy_check_deviations(
                     Hand_value(player_hand_), Strategy_dealer_value(dealer_up),
                     true_count, player_hand_)
         IN  IF deviation_action # "None" THEN deviation_action
             ELSE BasicStrategy_get_action(player_hand_, dealer_up)

-----------------------------------------------------------------------------
(* The strategies asked by a caller *)

\* the hands a strategy is asked with; the cards of a hand are of different suits
StrategyHands ==
    {<<a, RanksPerSuit + b>> : a \in 1..RanksPerSuit, b \in 1..RanksPerSuit}
    \cup {<<a, RanksPerSuit + b, 2 * RanksPerSuit + c>> :
             a \in ThreeCardRanks, b \in ThreeCardRanks, c \in ThreeCardRanks}

TrueCounts == (-MaxTrueCount)..MaxTrueCount

\* BasicStrategy.get_action and DeviationStrategy.get_action on one situation
\* under one set of rules
get_action ==
    /\ probe = NoProbe
    /\ \E h \in StrategyHands, dealer_up \in 1..RanksPerSuit, true_count \in TrueCounts,
          rules_ \in RulesChoices :
         probe' = [f |-> "get_action", player_hand |-> h, dealer_up |-> dealer_up,
                   true_count |-> true_count, rules |-> rules_,
                   basic |-> BasicStrategy_get_action(h, dealer_up),
                   value |-> DeviationStrategy_get_action(h, dealer_up, true_count)]
    /\ UNCHANGED <<rules, cards, cards_dealt, player_hand, dealer_hand, game_over,
                   result, counting_system, running_count, cards_seen, counted,
                   revealed, shuffles, switches, last>>

NextStrategy == get_action

SpecStrategy == InitProbe /\ [][NextStrategy]_vars

-----------------------------------------------------------------------------
(* The engine on every opening hand, for the advice of the strategies *)

\* The ranks random.shuffle may leave on top of the new shoe: any two player
\* cards, any dealer up-card, a seven in the hole, then a card a hit draws.
AdviceHitRanks == {1, 5, 10}

AdviceTops ==
    {<<a, d, b, 7, c>> : a \in 1..RanksPerSuit, d \in 1..RanksPerSuit,
                         b \in 1..RanksPerSuit, c \in AdviceHitRanks}

\* CountingBlackjackGame(rules) on a shoe shuffled to one of these orders
InitAdvice ==
    /\ rules \in RulesChoices
    /\ \E top \in AdviceTops : cards = random_shuffle(Shoe_create_decks, top)
    /\ cards_dealt = 0
    /\ player_hand = <<>>
    /\ dealer_hand = <<>>
    /\ game_over = FALSE
    /\ result = NoResult
    /\ counting_system = "Hi-Lo"
    /\ running_count = 0
    /\ cards_seen = 0
    /\ counted = <<>>
    /\ revealed = <<>>
    /\ shuffles = 0
    /\ switches = 0
    /\ last = [op |-> "init", ok |-> TRUE]
    /\ probe = NoProbe

\* one hand: the deal, then hits
NextAdvice ==
    \/ NotStarted /\ deal_initial_cards
    \/ player_hit

SpecAdvice == InitAdvice /\ [][NextAdvice]_vars

-----------------------------------------------------------------------------
(* A shoe used on its own *)

\* Shoe(num_decks, penetration): all cards, shuffled, none dealt
InitShoe ==
    /\ rules \in ShoeRulesChoices
    /\ \E top \in ShoeShuffleTops : cards = random_shuffle(Shoe_create_decks, top)
    /\ cards_dealt = 0
    /\ player_hand = <<>>
    /\ dealer_hand = <<>>
    /\ game_over = FALSE
    /\ result = NoResult
    /\ counting_system = "Hi-Lo"
    /\ running_count = 0
    /\ cards_seen = 0
    /\ counted = <<>>
    /\ revealed = <<>>
    /\ shuffles = 0
    /\ switches = 0
    /\ last = [op |-> "init", ok |-> TRUE]
    /\ probe = NoProbe

\* shoe.deal_card(): probe keeps the card returned
shoe_deal_card ==
    \E r \in {Shoe_deal_card(Cur)} :
        /\ cards' = r.cards
        /\ cards_dealt' = r.cards_dealt
        /\ last' = [op |-> "deal_card", ok |-> ~r.raised]
        /\ probe' = IF r.raised THEN NoProbe ELSE [f |-> "deal_card", card |-> r.card]
        /\ UNCHANGED <<rules, player_hand, dealer_hand, game_over, result,
                       counting_system, running_count, cards_seen, counted,
                       revealed, shuffles, switches>>

\* shoe.shuffle()
shoe_shuffle ==
    /\ shuffles < MaxShoeShuffles
    /\ \E top \in ShoeShuffleTops : \E r \in {Shoe_shuffle(Cur, top)} :
        /\ cards' = r.cards
        /\ cards_dealt' = r.cards_dealt
        /\ shuffles' = r.shuffles
        /\ last' = [op |-> "shuffle", ok |-> TRUE]
        /\ probe' = NoProbe
        /\ UNCHANGED <<rules, player_hand, dealer_hand, game_over, result,
                       counting_system, running_count, cards_seen, counted,
                       revealed, switches>>

NextShoe == shoe_deal_card \/ shoe_shuffle

SpecShoe == InitShoe /\ [][NextShoe]_vars

-----------------------------------------------------------------------------
(* A counter used on its own *)

\* counter.update_count(card) for a card of any rank
counter_update_count ==
    /\ cards_seen < MaxCardsSeen
    /\ \E c \in 1..RanksPerSuit : \E r \in {CardCounter_update_count(Cur, c)} :
        /\ running_count' = r.running_count
        /\ cards_seen' = r.cards_seen
        /\ last' = [op |-> "update_count", ok |-> TRUE]
        /\ probe' = NoProbe
        /\ UNCHANGED <<rules, cards, cards_dealt, player_hand, dealer_hand,
                       game_over, result, counting_system, counted, revealed,
                       shuffles, switches>>

\* counter.true_count()
counter_true_count ==
    /\ probe = NoProbe
    /\ probe' = [f |-> "true_count", value |-> CardCounter_true_count(Cur)]
    /\ last' = [op |-> "true_count", ok |-> TRUE]
    /\ UNCHANGED <<rules, cards, cards_dealt, player_hand, dealer_hand, game_over,
                   result, counting_system, running_count, cards_seen, counted,
                   revealed, shuffles, switches>>

NextCounter == counter_update_count \/ counter_true_count

SpecCounter == InitProbe /\ [][NextCounter]_vars

-----------------------------------------------------------------------------
(* A hand asked for its value *)

\* Hand(cards) on the cards of the given ranks; the card at position i is
\* of the i-th suit (of a further deck past the fourth)
Hand_init(ranks) ==
    [i \in 1..Len(ranks) |-> (i - 1) * RanksPerSuit + ranks[i]]

\* Hand.value() and Hand.is_soft() on one hand of at most MaxHandLen cards
hand_value ==
    /\ probe = NoProbe
    /\ \E n \in 0..MaxHandLen : \E ranks \in [1..n -> 1..RanksPerSuit] :
         \E h \in {Hand_init(ranks)} :
         probe' = [f |-> "Hand", cards |-> h,
                   value |-> Hand_value(h), is_soft |-> Hand_is_soft(h)]
    /\ UNCHANGED <<rules, cards, cards_dealt, player_hand, dealer_hand, game_over,
                   result, counting_system, running_count, cards_seen, counted,
                   revealed, shuffles, switches, last>>

NextHand == hand_value

SpecHand == InitProbe /\ [][NextHand]_vars

-----------------------------------------------------------------------------
(* GameSituation and DeviationStrategy.should_deviate *)

\* GameSituation.player_total
GameSituation_player_total(player_cards) ==
    LET c == CountCards(player_cards) IN AdjustAces(c[1], c[2])[1]

\* GameSituation.is_soft_hand: aces > 0 and total <= 21, on the total with
\* every ace as 11
GameSituation_is_soft_hand(player_cards) ==
    LET c == CountCards(player_cards) IN c[2] > 0 /\ c[1] <= 21

\* DeviationStrategy.should_deviate: some entry of the table for this total
\* and up-card has its threshold met
DeviationStrategy_should_deviate(player_cards, dealer_up_card, true_count) ==
    LET player_total == GameSituation_player_total(player_cards)
        dealer_value == Strategy_dealer_value(dealer_up_card)
    IN  \E e \in DeviationStrategy_deviation_thresholds :
          /\ e.player_total = player_total
          /\ e.dealer_value = dealer_value
          /\ \/ e.action \in {"STAND", "DOUBLE", "SPLIT"} /\ true_count >= e.threshold
             \/ e.action = "HIT" /\ true_count <= e.threshold

\* GameSituation(player_cards, dealer_up_card): its total and softness
game_situation ==
    /\ probe = NoProbe
    /\ \E n \in 0..MaxHandLen : \E ranks \in [1..n -> 1..RanksPerSuit] :
         \E h \in {Hand_init(ranks)} :
         probe' = [f |-> "GameSituation", player_cards |-> h,
                   player_total |-> GameSituation_player_total(h),
                   is_soft_hand |-> GameSituation_is_soft_hand(h)]
    /\ UNCHANGED <<rules, cards, cards_dealt, player_hand, dealer_hand, game_over,
                   result, counting_system, running_count, cards_seen, counted,
                   revealed, shuffles, switches, last>>

\* should_deviate(situation, true_count), with the actions
\* get_action_from_situation of both strategies gives for the situation
should_deviate ==
    /\ probe = NoProbe
    /\ \E h \in StrategyHands, dealer_up \in 1..RanksPerSuit, true_count \in TrueCounts :
         probe' = [f |-> "should_deviate", player_cards |-> h, dealer_up_card |-> dealer_up,
                   true_count |-> true_count,
                   value |-> DeviationStrategy_should_deviate(h, dealer_up, true_count),
                   basic |-> BasicStrategy_get_action(h, dealer_up),
                   deviation |-> DeviationStrategy_get_action(h, dealer_up, true_count)]
    /\ UNCHANGED <<rules, cards, cards_dealt, player_hand, dealer_hand, game_over,
                   result, counting_system, running_count, cards_seen, counted,
                   revealed, shuffles, switches, last>>

NextSituation ==
    \/ game_situation
    \/ should_deviate

SpecSituation == InitProbe /\ [][NextSituation]_vars

-----------------------------------------------------------------------------
(* Steps, as the properties below speak of them *)

\* this step is a call of op that returned
Completed(op) == last'.op = op /\ last'.ok

\* this step is a call of an engine operation that raised
Failed == last'.op \in EngineOps /\ ~last'.ok

\* the cards of a hand, as a set
CardsOf(h) == {h[i] : i \in 1..Len(h)}

\* how many times the card c was passed to the counter
TimesRevealed(rv, c) == Cardinality({i \in 1..Len(rv) : rv[i] = c})

\* the sum of the weights of the cards cs under the system sys
RECURSIVE SumOfWeights(_, _)
SumOfWeights(sys, cs) ==
    IF cs = <<>> THEN 0
    ELSE CountingSystem_card_value(sys, Head(cs)) + SumOfWeights(sys, Tail(cs))

-----------------------------------------------------------------------------
(* Properties *)

\* C1: an engine operation that fails (invalid transition, or the shoe
\* refusing to deal part-way) leaves both hands, the Over flag, the result,
\* the shoe (order and dealt-count) and the counter as they were.
C1_FailureChangesNothing ==
    [][Failed => UNCHANGED <<player_hand, dealer_hand, game_over, result,
                             cards, cards_dealt, running_count, cards_seen>>]_vars

\* C2: while a hand is InProgress the cards passed to the counter since the
\* deal are exactly the player's cards and the dealer's first card; the hole
\* card has not been passed.
C2_HoleCardHidden ==
    InProgress =>
        /\ Len(dealer_hand) >= 2
        /\ CardsOf(revealed) = CardsOf(player_hand) \cup {dealer_hand[1]}
        /\ Len(revealed) = Len(player_hand) + 1
        /\ dealer_hand[2] \notin CardsOf(revealed)

\* C3: when player_stand completes, or player_double completes without a
\* player bust, the hole card and then the dealer's drawn cards are passed to
\* the counter in hand order, and afterwards every card of both hands has
\* been passed exactly once.
C3_DealerCardsRevealed ==
    [][(~game_over /\ (Completed("player_stand")
                        \/ (Completed("player_double") /\ ~Hand_is_bust(player_hand'))))
        => /\ Len(dealer_hand') >= 2
           /\ \E pre \in {revealed, Append(revealed, player_hand'[Len(player_hand')])} :
                revealed' = pre \o SubSeq(dealer_hand', 2, Len(dealer_hand'))
           /\ \A c \in CardsOf(player_hand') \cup CardsOf(dealer_hand') :
                TimesRevealed(revealed', c) = 1]_vars

\* C4: deal_initial_cards succeeds only from NotStarted with a shoe that does
\* not need a shuffle; a success takes four cards, to player, dealer, player,
\* dealer; otherwise it fails and no card is dealt.
C4_DealInitialCards ==
    [][last'.op = "deal_initial_cards" =>
        /\ last'.ok =>
             /\ NotStarted /\ ~Shoe_needs_shuffle(Cur)
             /\ Len(cards) >= 4
             /\ player_hand' = <<cards[1], cards[3]>>
             /\ dealer_hand' = <<cards[2], cards[4]>>
             /\ cards' = SubSeq(cards, 5, Len(cards))
             /\ cards_dealt' = cards_dealt + 4
        /\ (~NotStarted \/ Shoe_needs_shuffle(Cur)) =>
             /\ ~last'.ok
             /\ player_hand' = player_hand
             /\ dealer_hand' = dealer_hand
             /\ CardsOf(cards') = CardsOf(cards)]_vars

C4_Witness ==
    /\ last = [op |-> "deal_initial_cards", ok |-> TRUE]
    /\ Len(player_hand) = 2 /\ Len(dealer_hand) = 2 /\ cards_dealt = 4

\* C5: no engine operation shuffles the shoe or resets the counter for a
\* shuffle; only reset does.
C5_NoShuffleInOperations ==
    [][last'.op \in EngineOps => shuffles' = shuffles]_vars

\* C6: once Over, every engine operation fails and leaves the flag, the
\* result and both hands; only reset leaves Over, to NotStarted.
C6_OverIsTerminal ==
    [][game_over =>
         \/ /\ last'.op = "reset"
            /\ NotStarted'
         \/ /\ Failed
            /\ game_over' /\ result' = result
            /\ player_hand' = player_hand /\ dealer_hand' = dealer_hand]_vars

C6_Witness ==
    /\ game_over
    /\ last.op \in EngineOps /\ ~last.ok
    /\ result.outcome # "None"

\* C7: after player_stand the dealer has at least 17 and no soft 17 under
\* dealer_hits_soft_17; every card the dealer took, it took on less than 17
\* or on a soft 17 under dealer_hits_soft_17.
C7_DealerPlay ==
    [][(~game_over /\ Completed("player_stand")) =>
        /\ Hand_value(dealer_hand') >= 17
        /\ ~(rules.dealer_hits_soft_17 /\ Hand_value(dealer_hand') = 17
               /\ Hand_is_soft(dealer_hand'))
        /\ Len(dealer_hand') >= Len(dealer_hand)
        /\ SubSeq(dealer_hand', 1, Len(dealer_hand)) = dealer_hand
        /\ \A k \in Len(dealer_hand)..(Len(dealer_hand') - 1) :
             LET h == SubSeq(dealer_hand', 1, k) IN
             \/ Hand_value(h) < 17
             \/ Hand_value(h) = 17 /\ Hand_is_soft(h) /\ rules.dealer_hits_soft_17]_vars

\* the dealer took a card on a soft 17 and the stand completed
C7_Witness ==
    /\ last = [op |-> "player_stand", ok |-> TRUE]
    /\ \E k \in 2..(Len(dealer_hand) - 1) :
         LET h == SubSeq(dealer_hand, 1, k) IN
         Hand_value(h) = 17 /\ Hand_is_soft(h)

\* C8: after player_stand the engine is Over; Win +1 on a dealer bust or a
\* higher player total, Loss -1 on a higher dealer total without a bust, Push
\* 0 on equal totals; the recorded totals are those of the final hands.
C8_StandResult ==
    [][(~game_over /\ Completed("player_stand")) =>
        LET pv == Hand_value(player_hand')
            dv == Hand_value(dealer_hand')
        IN
        /\ game_over'
        /\ result'.player_total = pv /\ result'.dealer_total = dv
        /\ (dv > 21 \/ pv > dv) => (result'.outcome = "WIN" /\ result'.payout = 10)
        /\ (dv <= 21 /\ dv > pv) => (result'.outcome = "LOSS" /\ result'.payout = -10)
        /\ (pv = dv) => (result'.outcome = "PUSH" /\ result'.payout = 0)]_vars

\* C9: after a successful deal: two naturals, Over with a Push; the player's
\* only, Over with Blackjack; the dealer's only, Over with a Loss; none,
\* InProgress without a result.
C9_Naturals ==
    (last = [op |-> "deal_initial_cards", ok |-> TRUE]) =>
        LET pb == Hand_value(player_hand) = 21
            db == Hand_value(dealer_hand) = 21
        IN
        /\ Len(player_hand) = 2 /\ Len(dealer_hand) = 2
        /\ (pb /\ db) => (Over /\ result.outcome = "PUSH")
        /\ (pb /\ ~db) => (Over /\ result.outcome = "BLACKJACK")
        /\ (~pb /\ db) => (Over /\ result.outcome = "LOSS")
        /\ (~pb /\ ~db) => (InProgress /\ result = NoResult
                              /\ BlackjackGame_get_result(Cur) = NoResult)

C9_Witness ==
    /\ last = [op |-> "deal_initial_cards", ok |-> TRUE]
    /\ Hand_value(player_hand) = 21 /\ Hand_value(dealer_hand) = 21
    /\ result.outcome = "PUSH"

\* C10: whatever positive blackjack_payout the rules carry, a hand in which
\* only the player has a natural ends with that payout.
C10_BlackjackPayout ==
    (/\ last = [op |-> "deal_initial_cards", ok |-> TRUE]
     /\ Hand_is_blackjack(player_hand) /\ ~Hand_is_blackjack(dealer_hand))
        => (game_over /\ result.payout = rules.blackjack_payout)

\* C11: player_double succeeds only InProgress on exactly two cards that are
\* not a blackjack; a success gives the player exactly one card and leaves the
\* engine Over; a bust is a Loss of -2 without dealer play; otherwise the
\* dealer plays and the payout is twice what a stand pays for the same final
\* hands: +2 for a win, -2 for a loss, 0 for a push.
C11_PlayerDouble ==
    [][Completed("player_double") =>
        LET final == [Cur EXCEPT !.player_hand = player_hand',
                                 !.dealer_hand = dealer_hand']
            stand == BlackjackGame_determine_winner(final)
        IN
        /\ InProgress /\ Len(player_hand) = 2 /\ ~Hand_is_blackjack(player_hand)
        /\ cards # <<>> /\ player_hand' = Append(player_hand, Head(cards))
        /\ game_over'
        /\ Hand_is_bust(player_hand') =>
              /\ result'.outcome = "LOSS" /\ result'.payout = -20
              /\ dealer_hand' = dealer_hand
        /\ ~Hand_is_bust(player_hand') =>
              /\ ~DealerHits(dealer_hand')
              /\ result'.outcome = stand.outcome
              /\ result'.payout = 2 * stand.payout
              /\ result'.outcome = "WIN" => result'.payout = 20
              /\ result'.outcome = "LOSS" => result'.payout = -20
              /\ result'.outcome = "PUSH" => result'.payout = 0
              /\ result'.outcome \in {"WIN", "LOSS", "PUSH"}]_vars

\* a double that was won, and one that was lost to the dealer's total
C11_Witness ==
    /\ last = [op |-> "player_double", ok |-> TRUE]
    /\ Len(player_hand) = 3 /\ ~Hand_is_bust(player_hand)
    /\ result.outcome = "LOSS" /\ result.payout = -20
    /\ Hand_value(dealer_hand) > Hand_value(player_hand)

\* C12: player_hit succeeds only InProgress; a success takes exactly one card
\* from the shoe, appends it to the player hand and passes it to the counter
\* once; on a total over 21 the engine is Over with a Loss of -1 marked player
\* busted; otherwise it stays InProgress without a result and the dealer hand
\* is unchanged.
C12_PlayerHit ==
    [][Completed("player_hit") =>
        /\ InProgress
        /\ cards # <<>> /\ cards' = Tail(cards) /\ cards_dealt' = cards_dealt + 1
        /\ player_hand' = Append(player_hand, Head(cards))
        /\ revealed' = Append(revealed, Head(cards))
        /\ counted' = Append(counted, Head(cards))
        /\ cards_seen' = cards_seen + 1
        /\ dealer_hand' = dealer_hand
        /\ Hand_value(player_hand') > 21 =>
              /\ Over'
              /\ result'.outcome = "LOSS" /\ result'.payout = -10
              /\ result'.player_busted
        /\ Hand_value(player_hand') <= 21 =>
              /\ InProgress'
              /\ result' = NoResult
              /\ BlackjackGame_get_result(Cur) = NoResult]_vars

\* a hit that busted the player
C12_Witness ==
    /\ last = [op |-> "player_hit", ok |-> TRUE]
    /\ game_over /\ result.player_busted /\ result.payout = -10

\* C13: player_surrender succeeds only InProgress on exactly two cards that are
\* not a blackjack and with rules.surrender_allowed; a success leaves the engine
\* Over with outcome Surrender, payout -0.5 and no dealer total, and the hands,
\* the shoe and the counter as they were.
C13_PlayerSurrender ==
    [][Completed("player_surrender") =>
        /\ InProgress /\ Len(player_hand) = 2 /\ ~Hand_is_blackjack(player_hand)
        /\ rules.surrender_allowed
        /\ Over'
        /\ result'.outcome = "SURRENDER" /\ result'.payout = -5
        /\ result'.dealer_total = None
        /\ UNCHANGED <<player_hand, dealer_hand, cards, cards_dealt,
                       running_count, cards_seen, counted>>]_vars

C13_Witness ==
    /\ last = [op |-> "player_surrender", ok |-> TRUE]
    /\ game_over /\ result.outcome = "SURRENDER"

\* C14: the counter's running count and cards-seen are set to zero at exactly
\* the steps that reshuffle the shoe and (apart from switch_counting_system) at
\* no other step; a reset that does not reshuffle leaves both unchanged.
C14_CounterZeroedAtShuffle ==
    [][last'.op # "switch_counting_system" =>
        /\ shuffles' # shuffles =>
              (counted' = <<>> \/ last'.op = "deal_initial_cards")
        /\ shuffles' = shuffles =>
              /\ Len(counted') >= Len(counted)
              /\ SubSeq(counted', 1, Len(counted)) = counted
              /\ last'.op = "reset" =>
                    (running_count' = running_count /\ cards_seen' = cards_seen)]_vars

\* C15: reset succeeds from NotStarted, InProgress and Over; afterwards both
\* hands are empty, there is no result and the engine is NotStarted; reset
\* shuffles the shoe if and only if the penetration threshold had been reached
\* before the call, and a reset that shuffles zeroes the counter in that step.
C15_Reset ==
    [][/\ ~CountingBlackjackGame_reset(Cur, <<>>).raised
       /\ last'.op = "reset" =>
        /\ last'.ok
        /\ player_hand' = <<>> /\ dealer_hand' = <<>>
        /\ result' = NoResult /\ NotStarted'
        /\ (shuffles' = shuffles + 1) <=> (cards_dealt >= Shoe_penetration_threshold)
        /\ shuffles' \in {shuffles, shuffles + 1}
        /\ shuffles' = shuffles => (cards' = cards /\ cards_dealt' = cards_dealt)
        /\ shuffles' # shuffles =>
              /\ cards_dealt' = 0
              /\ running_count' = 0 /\ cards_seen' = 0]_vars

\* a reset that reshuffled a shoe whose cards had been counted
C15_Witness ==
    /\ last = [op |-> "reset", ok |-> TRUE]
    /\ shuffles = 1 /\ cards_dealt = 0 /\ cards_seen = 0
    /\ Len(cards) < Shoe_total_cards - 4

\* C16: get_available_actions is empty when the engine is NotStarted or Over;
\* InProgress it holds Hit and Stand, Double exactly on two cards that are not
\* a blackjack, Split exactly on two cards that form a pair (equal rank or
\* equal value) and are not a blackjack, and Surrender exactly when the rules
\* allow surrender on two cards that are not a blackjack.
C16_AvailableActions ==
    LET acts == BlackjackGame_get_available_actions(Cur)
        a == {acts[i] : i \in 1..Len(acts)}
        two == Len(player_hand) = 2 /\ Hand_value(player_hand) # 21
        pair == \/ Rank(player_hand[1]) = Rank(player_hand[2])
                \/ (Rank(player_hand[1]) >= 10 /\ Rank(player_hand[2]) >= 10)
    IN
    /\ Cardinality(a) = Len(acts)
    /\ (NotStarted \/ Over) => a = {}
    /\ InProgress =>
         /\ a \subseteq {"HIT", "STAND", "DOUBLE", "SPLIT", "SURRENDER"}
         /\ "HIT" \in a /\ "STAND" \in a
         /\ "DOUBLE" \in a <=> two
         /\ "SPLIT" \in a <=> (two /\ pair)
         /\ "SURRENDER" \in a <=> (rules.surrender_allowed /\ two)

\* a pair in progress under rules with surrender: all five actions
C16_Witness ==
    /\ InProgress
    /\ Len(BlackjackGame_get_available_actions(Cur)) = 5

\* C17: running_count is the sum of the active system's weights of the cards
\* passed to the counter since it was last zeroed, and cards_seen is their
\* number; under Hi-Lo the weights are +1 for 2-6, 0 for 7-9, -1 for tens,
\* faces and aces, and 5, K, 6, 7 counts to +1.
C17_RunningCount ==
    /\ running_count = SumOfWeights(counting_system, counted)
    /\ cards_seen = Len(counted)
    /\ counting_system = "Hi-Lo" =>
         /\ running_count =
               Cardinality({i \in 1..Len(counted) : Rank(counted[i]) \in 2..6})
               - Cardinality({i \in 1..Len(counted) :
                                Rank(counted[i]) \in {ACE, 10, 11, 12, 13}})
         /\ RevealAll(CardCounter_init(Cur), <<5, 13, 6, 7>>).running_count = 1

\* cards counted under a system switched to in mid-shoe
C17_Witness ==
    /\ switches = 1 /\ counting_system = "KO"
    /\ Len(counted) >= 4 /\ running_count = 2
    /\ \E i \in 1..Len(counted) : Rank(counted[i]) = 7

\* C18: switch_counting_system, in any engine state, zeroes running count and
\* cards-seen and makes the new system the active one without counting again
\* a card already dealt; the hands, the shoe, the Over flag and the result stay.
C18_SwitchCountingSystem ==
    [][last'.op = "switch_counting_system" =>
        /\ last'.ok
        /\ running_count' = 0 /\ cards_seen' = 0 /\ counted' = <<>>
        /\ counting_system' = last'.new_system
        /\ UNCHANGED <<player_hand, dealer_hand, cards, cards_dealt,
                       game_over, result>>]_vars

\* a switch in mid-hand with cards already counted, and one when Over
C18_Witness ==
    /\ last.op = "switch_counting_system"
    /\ InProgress /\ cards_dealt >= 5
    /\ counting_system = "Hi-Opt I" /\ cards_seen = 0

\* C19: whatever payout a GameResult is constructed with, and after the
\* doubling of player_double, the stored payout agrees in sign with the
\* outcome: negative for Loss, positive for Win and Blackjack, exactly 0 for
\* Push and exactly -0.5 for Surrender.
C19_PayoutSign ==
    probe.f \in {"GameResult", "payout_doubled"} =>
        LET r == probe.value IN
        /\ r.outcome = "LOSS" => Float_lt(r.payout, 0)
        /\ r.outcome \in {"WIN", "BLACKJACK"} => Float_gt(r.payout, 0)
        /\ r.outcome = "PUSH" => r.payout = 0
        /\ r.outcome = "SURRENDER" => r.payout = -5

\* C20: for every deviation entry (player total, dealer value, action,
\* threshold) and every hand of that total against that dealer value:
\* for Stand, Double and Split, DeviationStrategy returns the action when
\* true_count >= threshold and otherwise what BasicStrategy returns;
\* for Hit, it returns Hit when true_count <= threshold and otherwise what
\* BasicStrategy returns.
C20_DeviationEntries ==
    probe.f = "get_action" =>
        \A e \in DeviationStrategy_deviation_thresholds :
            (/\ Hand_value(probe.player_hand) = e.player_total
             /\ Strategy_dealer_value(probe.dealer_up) = e.dealer_value)
            => IF e.action = "HIT"
               THEN probe.value = (IF probe.true_count <= e.threshold
                                   THEN "HIT" ELSE probe.basic)
               ELSE probe.value = (IF probe.true_count >= e.threshold
                                   THEN e.action ELSE probe.basic)

\* the deviation table has an entry, for some action, for this player total
\* against this dealer value
HasDeviationEntry(player_total, dealer_value) ==
    \E e \in DeviationStrategy_deviation_thresholds :
        e.player_total = player_total /\ e.dealer_value = dealer_value

\* C21: for every hand and dealer upcard whose (player total, dealer value)
\* pair has no entry in the deviation table, DeviationStrategy.get_action
\* returns what BasicStrategy.get_action returns, at every true count.
C21_BasicFallback ==
    (/\ probe.f = "get_action"
     /\ ~HasDeviationEntry(Hand_value(probe.player_hand),
                           Strategy_dealer_value(probe.dealer_up)))
    => probe.value = probe.basic

\* a hard 14 against a ten at the highest true count is played as basic
\* strategy plays it
C21_Witness ==
    /\ probe.f = "get_action"
    /\ Hand_value(probe.player_hand) = 14 /\ ~Hand_is_soft(probe.player_hand)
    /\ Strategy_dealer_value(probe.dealer_up) = 10
    /\ probe.true_count = MaxTrueCount
    /\ probe.value = "HIT" /\ probe.basic = "HIT"

\* C22: for every entry of the deviation table with threshold T, on a hand
\* with that total against that dealer value, the recommendation at
\* true_count = T-1 differs from the recommendation at true_count = T+1, and
\* the entry's action is recommended at T+1 for a Stand, Double or Split
\* entry and at T-1 for a Hit entry.
C22_ThresholdRoundTrip ==
    probe.f = "get_action" =>
        \A e \in DeviationStrategy_deviation_thresholds :
            (/\ Hand_value(probe.player_hand) = e.player_total
             /\ Strategy_dealer_value(probe.dealer_up) = e.dealer_value
             /\ probe.true_count = e.threshold - 1)
            => LET above == DeviationStrategy_get_action(
                                probe.player_hand, probe.dealer_up, e.threshold + 1)
               IN  /\ probe.value # above
                   /\ IF e.action = "HIT" THEN probe.value = "HIT"
                                           ELSE above = e.action

\* what the chart of the hand's kind (soft or hard) says for the hand's
\* total against the dealer value, "none" where the chart has no such cell
ChartSays(h, dealer_value) ==
    LET total == Hand_value(h) IN
    IF Hand_is_soft(h) /\ total \in 13..20
    THEN BasicStrategy_soft_strategy[total - 12][dealer_value - 1]
    ELSE IF ~Hand_is_soft(h) /\ total \in 5..21
    THEN BasicStrategy_hard_strategy[total - 4][dealer_value - 1]
    ELSE "none"

\* C23: BasicStrategy never returns Double for a hand that is not exactly
\* two cards; wherever the chart says Double for that total and upcard, it
\* returns Hit.
C23_DoubleDowngradedToHit ==
    (probe.f = "get_action" /\ Len(probe.player_hand) # 2) =>
        /\ probe.basic # "DOUBLE"
        /\ ChartSays(probe.player_hand, Strategy_dealer_value(probe.dealer_up)) = "DOUBLE"
           => probe.basic = "HIT"

\* a three-card soft 18 against a 3, where the soft chart says Double
C23_Witness ==
    /\ probe.f = "get_action"
    /\ Len(probe.player_hand) = 3 /\ Hand_is_soft(probe.player_hand)
    /\ Hand_value(probe.player_hand) = 18
    /\ Strategy_dealer_value(probe.dealer_up) = 3
    /\ ChartSays(probe.player_hand, 3) = "DOUBLE"
    /\ probe.basic = "HIT"

C25_HardEightOrLessHits ==
    probe.f = "get_action" =>
        LET h == probe.player_hand
            dealer_value == Strategy_dealer_value(probe.dealer_up)
        IN  (/\ ~Hand_is_soft(h) /\ Hand_value(h) <= 8
             /\ ~(/\ Hand_can_split(h)
                  /\ BasicStrategy_pair_strategy[Rank(h[1])][dealer_value - 1] = "SPLIT"))
            => probe.basic = "HIT"

\* C26: when the rules allow surrender, BasicStrategy returns Surrender for
\* a two-card hard 16 against a dealer 9, 10 or ace and for a two-card hard
\* 15 against a dealer 10; when the rules do not allow surrender it never
\* returns Surrender.
C26_Surrender ==
    probe.f = "get_action" =>
        LET h == probe.player_hand
            dealer_value == Strategy_dealer_value(probe.dealer_up)
        IN  /\ (/\ probe.rules.surrender_allowed
                /\ Len(h) = 2 /\ ~Hand_is_soft(h)
                /\ \/ Hand_value(h) = 16 /\ dealer_value \in {9, 10, 11}
                   \/ Hand_value(h) = 15 /\ dealer_value = 10)
               => probe.basic = "SURRENDER"
            /\ ~probe.rules.surrender_allowed => probe.basic # "SURRENDER"

\* the total of a hand with every ace counted as 1
RECURSIVE LowTotal(_)
LowTotal(h) ==
    IF h = <<>> THEN 0 ELSE Card_value(Head(h), FALSE) + LowTotal(Tail(h))

\* the number of aces of a hand
NumAces(h) == Cardinality({i \in 1..Len(h) : Rank(h[i]) = ACE})

\* the totals a hand has as each ace is counted as 1 or as 11
AceTotals(h) == {LowTotal(h) + 10 * k : k \in 0..NumAces(h)}

\* C27: for every hand, Hand.value is the largest total obtainable by counting
\* each ace as 1 or 11 that does not exceed 21, if there is one, and otherwise
\* the total with every ace counted as 1.
C27_HandValue ==
    probe.f = "Hand" =>
        LET within == {t \in AceTotals(probe.cards) : t <= 21} IN
        probe.value = IF within # {}
                      THEN CHOOSE t \in within : \A u \in within : u <= t
                      ELSE LowTotal(probe.cards)

\* two aces and a ten: 32 with both aces as 11, 22 with one, 12 with none
C27_Witness ==
    /\ probe.f = "Hand"
    /\ Len(probe.cards) = 3
    /\ Rank(probe.cards[1]) = ACE /\ Rank(probe.cards[2]) = ACE
    /\ Rank(probe.cards[3]) = 10
    /\ probe.value = 12

\* C28: for every hand, Hand.is_soft is true if and only if the hand contains
\* an ace and the value Hand.value returns counts one ace as 11, that is, the
\* total with every ace counted as 1 is at most 11.
C28_IsSoft ==
    probe.f = "Hand" =>
        /\ probe.is_soft <=> (NumAces(probe.cards) > 0 /\ LowTotal(probe.cards) <= 11)
        /\ probe.is_soft <=> (/\ NumAces(probe.cards) > 0
                              /\ probe.value = LowTotal(probe.cards) + 10)

\* an ace, a five and a ten: the ace counts as 1 and the hand is hard
C28_Witness ==
    /\ probe.f = "Hand"
    /\ Len(probe.cards) = 3
    /\ Rank(probe.cards[1]) = ACE /\ Rank(probe.cards[2]) = 5
    /\ Rank(probe.cards[3]) = 10
    /\ probe.value = 16 /\ ~probe.is_soft

\* what C29 and its amendment share: a refused deal_card leaves the shoe as
\* it was, a deal_card that is not refused returns the first remaining card
\* and raises the dealt-count by one, and shuffle sets the dealt-count to 0
DealCardAndShuffleEffects ==
    /\ (last'.op = "deal_card" /\ ~last'.ok) => UNCHANGED <<cards, cards_dealt>>
    /\ (last'.op = "deal_card" /\ last'.ok) =>
          /\ cards # <<>>
          /\ probe'.card = Head(cards)
          /\ cards' = Tail(cards)
          /\ cards_dealt' = cards_dealt + 1
    /\ last'.op = "shuffle" => cards_dealt' = 0

\* C29 as stated: Shoe.deal_card is refused, leaving the shoe unchanged,
\* exactly when the number of cards dealt since the last shuffle is at least
\* total_cards times penetration; otherwise it returns the first remaining
\* card and raises the dealt-count by one; Shoe.shuffle sets the dealt-count
\* to 0.
C29_DealCardAsStated ==
    [][/\ last'.op = "deal_card" =>
            (~last'.ok <=> cards_dealt * 100 >= Shoe_total_cards * rules.penetration)
       /\ DealCardAndShuffleEffects]_vars

\* C29 amended: Shoe.deal_card is refused, leaving the shoe unchanged, exactly
\* when the number of cards dealt since the last shuffle is at least
\* total_cards times penetration rounded down to a whole number, or no card
\* remains; otherwise it returns the first remaining card and raises the
\* dealt-count by one; Shoe.shuffle sets the dealt-count to 0.
C29_DealCard ==
    [][/\ last'.op = "deal_card" =>
            (~last'.ok <=> \/ cards_dealt >= (Shoe_total_cards * rules.penetration) \div 100
                           \/ cards = <<>>)
       /\ DealCardAndShuffleEffects]_vars

\* a deal refused at 7 cards dealt of 52 under a penetration of 0.14
\* (52 * 0.14 = 7.28)
C29_Witness ==
    /\ last = [op |-> "deal_card", ok |-> FALSE]
    /\ cards_dealt * 100 < Shoe_total_cards * rules.penetration
    /\ cards_dealt = 7
    /\ Len(cards) = Shoe_total_cards - 7

\* C30: true_count is exactly 0 whenever cards_seen is at least num_decks
\* times 52; otherwise it is running_count divided by the remaining decks,
\* (num_decks*52 - cards_seen)/52, so that true_count times
\* (num_decks*52 - cards_seen) equals running_count times 52.
C30_TrueCount ==
    probe.f = "true_count" =>
        IF cards_seen >= rules.num_decks * 52
        THEN probe.value.num = 0
        ELSE /\ probe.value.den # 0
             /\ probe.value.num * (rules.num_decks * 52 - cards_seen)
                  = running_count * 52 * probe.value.den

\* half a deck seen and a running count of 5: a true count of 10
C30_Witness ==
    /\ probe.f = "true_count"
    /\ cards_seen = 26 /\ running_count = 5
    /\ probe.value.num = 10 * probe.value.den

\* C31: every engine operation finishes after a bounded number of steps; the
\* dealer-play loop inside player_stand and player_double always stops after
\* finitely many draws, with a final dealer hand or with a failure.
\* Every operation but these two is straight-line code over the hands.  In
\* the loop, an iteration either ends the operation (the dealer stands, or
\* the shoe refuses the card) or adds a card to the dealer's hand, and no
\* more than 17 iterations add a card.
C31_DealerPlayStops ==
    InDealerPlay =>
        /\ probe.draws = Len(dealer_hand) - Len(probe.entry.dealer_hand)
        /\ probe.draws <= 17

\* a stand on which the dealer drew two cards and stood
C31_Witness ==
    /\ ~InDealerPlay
    /\ last = [op |-> "player_stand", ok |-> TRUE]
    /\ Len(dealer_hand) = 4 /\ game_over

\* C32: in every reachable state get_result returns a result if and only if
\* the engine is Over; it returns nothing in NotStarted and InProgress.
C32_ResultIffOver ==
    /\ (BlackjackGame_get_result(Cur) # NoResult) <=> Over
    /\ (NotStarted \/ InProgress) => BlackjackGame_get_result(Cur) = NoResult

\* a hand ended by surrender: get_result returns the Surrender result
C32_Witness ==
    /\ Over
    /\ last = [op |-> "player_surrender", ok |-> TRUE]
    /\ BlackjackGame_get_result(Cur).outcome = "SURRENDER"

\* C33: in every reachable state of the engine the number of cards remaining
\* in the shoe plus the number dealt since the last shuffle is num_decks
\* times 52; in particular, after a reset that shuffles the shoe, the shoe
\* again holds all num_decks times 52 cards.
C33_ShoeHoldsAllCards ==
    /\ Len(cards) + cards_dealt = rules.num_decks * 52
    /\ (last.op = "reset" /\ cards_dealt = 0) => Len(cards) = rules.num_decks * 52

\* C34: from a NotStarted state whose shoe does not require a shuffle,
\* deal_initial_cards succeeds and deals all four cards; and
\* deal_initial_cards called right after reset succeeds, so play can always
\* continue hand after hand.
C34_DealAlwaysSucceeds ==
    [][(/\ last'.op = "deal_initial_cards"
        /\ \/ NotStarted /\ ~Shoe_needs_shuffle(Cur)
           \/ last.op = "reset")
       => /\ last'.ok
          /\ Len(player_hand') = 2
          /\ Len(dealer_hand') = 2]_vars

\* C35: in every reachable InProgress state the player holds at least two
\* cards with a total of at most 21, the dealer holds exactly two cards, and
\* neither hand is a two-card 21.
C35_InProgressHands ==
    InProgress =>
        /\ Len(player_hand) >= 2
        /\ Hand_value(player_hand) <= 21
        /\ Len(dealer_hand) = 2
        /\ ~Hand_is_blackjack(player_hand)
        /\ ~Hand_is_blackjack(dealer_hand)

\* The action a is in the list of available actions
IsAvailable(a, s) ==
    \E i \in 1..Len(BlackjackGame_get_available_actions(s)) :
        BlackjackGame_get_available_actions(s)[i] = a

\* The call on s ended as r in agreement with the availability of action a:
\* not available, it raised and changed nothing; available, it went through
\* unless the shoe refused a card (and then still refuses)
AcceptedIffAvailable(a, s, r) ==
    IF IsAvailable(a, s)
    THEN r.raised => Shoe_deal_card([r EXCEPT !.raised = FALSE]).raised
    ELSE r = Raise(s)

\* C36: in every reachable state and for each of Hit, Stand, Double and
\* Surrender, the operation is rejected as an invalid transition exactly
\* when the action is not in get_available_actions; every rejection raises
\* an error and no accepted call raises one but for a refusal of the shoe.
C36_AcceptedIffAvailable ==
    /\ AcceptedIffAvailable("HIT", Cur, CountingBlackjackGame_player_hit(Cur))
    /\ AcceptedIffAvailable("STAND", Cur, CountingBlackjackGame_player_stand(Cur))
    /\ AcceptedIffAvailable("DOUBLE", Cur, CountingBlackjackGame_player_double(Cur))
    /\ AcceptedIffAvailable("SURRENDER", Cur, CountingBlackjackGame_player_surrender(Cur))

\* a double refused on a three-card hand in progress, where Hit and Stand
\* are available
C36_Witness ==
    /\ last = [op |-> "player_double", ok |-> FALSE]
    /\ InProgress
    /\ Len(player_hand) = 3
    /\ ~Shoe_needs_shuffle(Cur)
    /\ IsAvailable("HIT", Cur)
    /\ ~IsAvailable("DOUBLE", Cur)

\* C37: in every reachable state the counter's cards-seen is at most the
\* number of cards the shoe has dealt since its last shuffle, and no dealt
\* card is passed to the counter more than once; a dealt card never passed
\* to the counter (the hole card of a hand ended by a natural) makes the two
\* numbers differ.
C37_SeenAtMostDealt ==
    /\ cards_seen <= cards_dealt
    /\ cards_seen = Len(counted)
    /\ \A i, j \in 1..Len(counted) : counted[i] = counted[j] => i = j
    /\ (game_over /\ last = [op |-> "deal_initial_cards", ok |-> TRUE])
           => cards_seen < cards_dealt

\* C38: in every reachable InProgress state the action BasicStrategy
\* recommends for the player's hand against the dealer's first card, and the
\* action DeviationStrategy recommends at any true count, is one of the
\* actions in get_available_actions for that state.
C38_AdviceIsAvailable ==
    (InProgress /\ Len(dealer_hand) >= 1) =>
        /\ IsAvailable(BasicStrategy_get_action(player_hand, dealer_hand[1]), Cur)
        /\ \A true_count \in TrueCounts :
              IsAvailable(DeviationStrategy_get_action(player_hand, dealer_hand[1],
                                                       true_count), Cur)

\* a three-card 10 against a dealer ten: two cards would double at a high
\* count, three cards cannot
C38_Witness ==
    /\ InProgress
    /\ last = [op |-> "player_hit", ok |-> TRUE]
    /\ Len(player_hand) = 3
    /\ Hand_value(player_hand) = 10
    /\ Strategy_dealer_value(dealer_hand[1]) = 10
    /\ ~IsAvailable("DOUBLE", Cur)
    /\ DeviationStrategy_get_action(player_hand, dealer_hand[1], MaxTrueCount) = "HIT"

\* C39: for every situation and true count, should_deviate returns true if
\* and only if the action DeviationStrategy recommends for that situation at
\* that true count differs from the action BasicStrategy recommends for it.
C39_ShouldDeviateIffDiffers ==
    probe.f = "should_deviate" =>
        (probe.value <=> probe.deviation # probe.basic)

\* C40: for every list of cards, GameSituation.player_total equals
\* Hand.value and GameSituation.is_soft_hand equals Hand.is_soft for a hand
\* holding the same cards.
C40_SituationAgreesWithHand ==
    probe.f = "GameSituation" =>
        /\ probe.player_total = Hand_value(probe.player_cards)
        /\ probe.is_soft_hand = Hand_is_soft(probe.player_cards)

====
